---- MODULE Spec2Model ----
(***************************************************************************)
(* Model of the MCP protocol engine (src/src/protocol.rs): one child       *)
(* process behind a pair of pipes, a tokio Mutex around the pipes, an      *)
(* atomic request-id counter and the capabilities stored by the handshake. *)
(* Tasks run the public operations; every await point of send_request is   *)
(* a separate step so that concurrent callers interleave as they do under  *)
(* the tokio scheduler.                                                    *)
(***************************************************************************)
EXTENDS Integers, Sequences, FiniteSets, TLC

\* ---------------------------------------------------------------- bounds
\* Number of request ids one engine may allocate in a checked run.
MaxId == 3

\* Number of engines one ProtocolManager may hold in a checked run.
MaxProtocols == 3

\* ------------------------------------------------------------- vocabulary
Procs == {"main", "t1"}

ServerCapability == {"Experimental", "Logging", "Prompts", "Resources", "Tools", "Sampling"}

GatedOps == {"list_tools", "call_tool", "list_resources", "read_resources", "list_prompts"}

\* An Option field of ServerCapabilities: "None", or Some(record) told apart
\* by whether the values inside the record are all false/empty or not.
FieldValues == {"None", "false", "true"}

\* ServerCapabilities with every field None.
NoFields == [c \in ServerCapability |-> "None"]

\* A capability field as a peer writes it: absent, a record under the keys
\* of the Rust struct ("false", "true" as above), or "wire": a record under the
\* keys of the protocol's data model (supportsCustom, supportsSubscribe,
\* supportsDelta, levels, supportsStreaming, maxTokens, supportedMethods).
WireValues == FieldValues \cup {"wire"}

\* Capabilities a peer advertises in the handshake result.
CapChoices == {NoFields,
               [NoFields EXCEPT !["Tools"] = "wire"],
               [NoFields EXCEPT !["Prompts"] = "true", !["Resources"] = "true"],
               [NoFields EXCEPT !["Tools"] = "wire", !["Prompts"] = "wire"]}

\* The (name, arguments) pairs handed to call_tool.
ToolCalls == {[name |-> "search_repositories", arguments |-> "{query:rust}"],
              [name |-> "get_file_contents", arguments |-> "{}"]}

\* The protocol versions handed to Protocol::new and initialize.
Versions == {"0", "2024-11-05"}

\* The uri lists handed to read_resources.
UriLists == {<<"file:///a">>}

NoArgs == [none |-> TRUE]

\* The keys add_protocol is called with.
Keys == {"github", "fs"}

Tool(n, d) == [name |-> n, description |-> d]

\* The tool lists a server answers tools/list with.
Catalogs == {<<>>,
             <<Tool("search_repositories", "search")>>,
             <<Tool("search_repositories", "search"), Tool("get_file_contents", "read")>>}

\* Option<Vec<String>> / Option<&[String]>: None, or Some of the strings.
NoStrings == [some |-> FALSE, strings |-> {}]

SomeStrings(ss) == [some |-> TRUE, strings |-> ss]

\* The tool_names add_protocol is called with.
ToolNameChoices == {NoStrings, SomeStrings({"search_repositories"})}

\* The client_ids get_protocols is called with.
ClientIdChoices == {NoStrings} \cup {SomeStrings(ss) : ss \in SUBSET (Keys \cup {"unknown"})}

\* Values a peer puts in a tool result.
Texts == {"hello"}

\* Messages a peer puts in an error envelope.
RemoteMessages == {"method not found"}

\* Option<ServerCapabilities>: None, or Some(record) given by its fields.
None == [some |-> FALSE, fields |-> NoFields]

Some(c) == [some |-> TRUE, fields |-> c]

NoLine == [id |-> -1, text |-> "none", hasResult |-> FALSE, hasError |-> FALSE,
           shape |-> "none", caps |-> NoFields, msg |-> "", payload |-> ""]

\* read_line at end of file returns Ok(0) and leaves the buffer empty.
EofLine == [id |-> -1, text |-> "empty", hasResult |-> FALSE, hasError |-> FALSE,
            shape |-> "none", caps |-> NoFields, msg |-> "", payload |-> ""]

NoResult == [kind |-> "None", msg |-> "", value |-> ""]

Ok == [kind |-> "Ok", msg |-> "", value |-> ""]

\* Ok(response) of an operation whose response carries the value v.
OkValue(v) == [kind |-> "Ok", msg |-> "", value |-> v]

Err(k, m) == [kind |-> k, msg |-> m, value |-> ""]

VARIABLES
    phase,         \* "unconstructed", "initializing", "ready", "failed", "dropped": life of the engine
    childAlive,    \* the spawned child still runs and holds its pipe ends
    capabilities,  \* Protocol.capabilities: None or Some of the present fields
    next_id,       \* Protocol.next_id (AtomicU64)
    inner,         \* the tasks holding the guard of Protocol.inner (tokio Mutex)
    toPeer,        \* request lines in the child's stdin pipe
    fromPeer,      \* response lines in the child's stdout pipe
    pc,            \* per task: position inside the operation it runs
    op,            \* per task: the operation it runs
    reqId,         \* per task: id of the request it built
    line,          \* per task: the line its last round trip read
    result,        \* per task: what its last operation returned
    capAtCheck,    \* per task: what check_capability saw for its last gated operation
    allocated,     \* ids handed out by next_id, in allocation order
    written,       \* per task: request lines its current operation wrote
    consumed,      \* per task: response lines its current operation read
    newLine,       \* the line Protocol::new read for the handshake
    newResult,     \* what Protocol::new returned
    args,          \* per task: the arguments of the operation it runs
    sent,          \* per task: the request line its current operation wrote
    wire,          \* ids of the request lines written to stdin, in write order
    asked,         \* the last call of capable: its argument and what it returned
    tool_counter,  \* ProtocolManager.tool_counter
    clients,       \* ProtocolManager.clients: the engines, in the order they were added
    formatted_tools, \* ProtocolManager.formatted_tools
    client_tools,  \* ProtocolManager.client_tools: key -> Vec<Tool>
    registered,    \* per element of clients: the key add_protocol was called with
    lastAdd,       \* what the last call of add_protocol returned
    got            \* the last call of get_protocols: its argument and what it returned

\* The state of one Protocol and of the tasks using it.
engineVars == <<phase, childAlive, capabilities, next_id, inner, toPeer, fromPeer,
                pc, op, reqId, line, result, capAtCheck, allocated, written, consumed,
                newLine, newResult, args, sent, wire>>

\* The state of one ProtocolManager.
managerVars == <<tool_counter, clients, formatted_tools, client_tools, registered,
                 lastAdd, got>>

\* What the operations of the Protocol leave alone.
outside == <<asked, managerVars>>

vars == <<engineVars, asked, managerVars>>

\* ------------------------------------------------------- pure functions
\* enum RequestType
RequestType == {"Initialize", "CallTool", "ResourcesUnsubscribe", "ResourcesSubscribe",
                "ResourcesRead", "ResourcesList", "LoggingSetLevel", "PromptsGet",
                "PromptsList", "CompletionComplete", "Ping", "ListTools",
                "ListResourceTemplates", "ListRoots"}

\* RequestType::as_str
as_str(t) ==
    CASE t = "Initialize"            -> "initialize"
      [] t = "CallTool"              -> "tools/call"
      [] t = "ResourcesUnsubscribe"  -> "resources/unsubscribe"
      [] t = "ResourcesSubscribe"    -> "resources/subscribe"
      [] t = "ResourcesRead"         -> "resources/read"
      [] t = "ResourcesList"         -> "resources/list"
      [] t = "LoggingSetLevel"       -> "logging/setLevel"
      [] t = "PromptsGet"            -> "prompts/get"
      [] t = "PromptsList"           -> "prompts/list"
      [] t = "CompletionComplete"    -> "completion/complete"
      [] t = "Ping"                  -> "ping"
      [] t = "ListTools"             -> "tools/list"
      [] t = "ListResourceTemplates" -> "resources/templates/list"
      [] t = "ListRoots"             -> "roots/list"

\* The strings as_str returns.
MethodStrings == {as_str(t) : t \in RequestType}

\* No two variants of RequestType share their string.
as_str_injective == \A a, b \in RequestType : a # b => as_str(a) # as_str(b)

\* The RequestType each operation hands to JsonRpcRequest::new.
RequestTypeOf(o) ==
    CASE o = "initialize"     -> "Initialize"
      [] o = "call_tool"      -> "CallTool"
      [] o = "read_resources" -> "ResourcesRead"
      [] o = "list_resources" -> "ResourcesList"
      [] o = "list_prompts"   -> "PromptsList"
      [] o = "list_tools"     -> "ListTools"

\* Every gated operation checking the Tools capability.
RequiredCapability_tools_only(o) == "Tools"

\* The capability each gated operation hands to check_capability.
RequiredCapability(o) ==
    CASE o = "list_prompts"   -> "Prompts"
      [] o = "list_resources" -> "Resources"
      [] o = "read_resources" -> "Resources"
      [] o = "list_tools"     -> "Tools"
      [] o = "call_tool"      -> "Tools"

\* The arguments each operation can be called with.
ArgsOf(o) ==
    CASE o = "initialize"     -> {[version |-> v] : v \in Versions}
      [] o = "call_tool"      -> ToolCalls
      [] o = "read_resources" -> {[uris |-> u] : u \in UriLists}
      [] o = "list_resources" -> {NoArgs}
      [] o = "list_prompts"   -> {NoArgs}
      [] o = "list_tools"     -> {NoArgs}

\* call_tool building its params without the caller's arguments.
Params_no_arguments(o, a) ==
    CASE o = "initialize"     -> [protocolVersion |-> a.version, capabilities |-> "{}",
                                  clientInfo |-> [name |-> "test", version |-> "0.1.0"]]
      [] o = "call_tool"      -> [name |-> a.name, arguments |-> "{}"]
      [] o = "read_resources" -> [uris |-> a.uris]
      [] o = "list_resources" -> "{}"
      [] o = "list_prompts"   -> "{}"
      [] o = "list_tools"     -> "{}"

\* The params each operation puts in its request: InitializeParams,
\* ToolCallParams, json!({"uris": uris}), json!({}).
Params(o, a) ==
    CASE o = "initialize"     -> [protocolVersion |-> a.version, capabilities |-> "{}",
                                  clientInfo |-> [name |-> "test", version |-> "0.1.0"]]
      [] o = "call_tool"      -> [name |-> a.name, arguments |-> a.arguments]
      [] o = "read_resources" -> [uris |-> a.uris]
      [] o = "list_resources" -> "{}"
      [] o = "list_prompts"   -> "{}"
      [] o = "list_tools"     -> "{}"

\* A request builder that numbers requests from 1.
JsonRpcRequest_from_one(id, o, a) ==
    [jsonrpc |-> "2.0", id |-> id + 1, method |-> as_str(RequestTypeOf(o)), params |-> Params(o, a)]

\* JsonRpcRequest::new(id, method, params) as serde_json::to_string writes it.
JsonRpcRequest(id, o, a) ==
    [jsonrpc |-> "2.0", id |-> id, method |-> as_str(RequestTypeOf(o)), params |-> Params(o, a)]

NoRequest == [jsonrpc |-> "", id |-> -1, method |-> "", params |-> "{}"]

\* capable answering by the value inside the field.
capable_truthy(caps, c) == IF caps.some THEN caps.fields[c] = "true" ELSE FALSE

\* Protocol::capable
capable(caps, c) == IF caps.some THEN caps.fields[c] # "None" ELSE FALSE

\* check_capability with the test dropped: every operation is let through.
check_capability_unchecked(caps, c) == Ok

\* Protocol::check_capability
check_capability(caps, c) ==
    IF capable(caps, c) THEN Ok
    ELSE Err("CapabilityError", "Server does not support capability")

\* A gated operation that computes the capability error but goes on.
after_check_no_return(res) == "next_id"

\* The `?` after check_capability: an Err returns from the operation at once.
after_check(res) == IF res = Ok THEN "next_id" ELSE "idle"

\* An operation that sends its request again when the response did not parse.
after_read_retry(res) == IF res.kind = "ProtocolError" THEN "lock" ELSE "idle"

\* No operation loops: whatever send_request returned, the operation returns.
after_read(res) == "idle"

\* A child spawned with kill_on_drop(true).
drop_child_killed(alive) == FALSE

\* Dropping a tokio::process::Child built without kill_on_drop leaves the
\* process running.
drop_child(alive) == alive

\* A counter that is read but never advanced.
fetch_add_lost(v) == v

\* AtomicU64::fetch_add(1): the new counter value
fetch_add(v) == v + 1

\* A guard that is forgotten instead of dropped.
drop_guard_leaked(holders, p) == holders

\* The MutexGuard `inner` goes out of scope when send_request returns, by
\* its last expression or by any `?`.
drop_guard(holders, p) == holders \ {p}

\* A lock that lets a second caller in while a guard is alive.
lock_free_broken(holders) == TRUE

\* tokio Mutex::lock completes only when no guard is alive.
lock_free(holders) == holders = {}

\* serde's decoding of JsonRpcResponse<Value>: an untagged enum tries the
\* Success variant first and ignores keys it does not know, then Error.
from_str(l) ==
    IF l.text # "json" THEN "Invalid"
    ELSE IF l.hasResult THEN "Success"
    ELSE IF l.hasError THEN "Error"
    ELSE "Invalid"

\* The top-level shape of the JSON value each operation decodes its result
\* into: InitializeResponse, ListToolsResponse {tools}, CallToolResponse
\* {toolResult}, ResourcesListResponse {resources}, ResourcesReadResponse
\* {contents}, Vec<Prompt>.
ResultSchema(o) ==
    CASE o = "initialize"     -> "handshake"
      [] o = "list_tools"     -> "tools"
      [] o = "call_tool"      -> "toolResult"
      [] o = "list_resources" -> "resources"
      [] o = "read_resources" -> "contents"
      [] o = "list_prompts"   -> "prompts"

\* serde's decoding of one Option field of ServerCapabilities. The records
\* carry no rename: a key of the data model is an unknown key and is ignored,
\* and the struct's own key is then missing. experimental is a Value and
\* levels is spelled the same in both; supports_streaming has a default.
decode_field(c, v) ==
    IF v # "wire" THEN v
    ELSE CASE c = "Experimental" -> "true"
           [] c = "Logging"      -> "true"
           [] c = "Tools"        -> "false"
           [] c = "Prompts"      -> "error"
           [] c = "Resources"    -> "error"
           [] c = "Sampling"     -> "error"

\* ServerCapabilities as decoded from the capabilities of a handshake result.
decode_capabilities(w) == [c \in ServerCapability |-> decode_field(c, w[c])]

\* A decoder that fills in defaults for whatever is missing.
from_value_lenient(o, l) == TRUE

\* serde_json::from_value(result) into the operation's response type: a
\* required key that is missing is an error, at the top and inside.
from_value(o, l) ==
    /\ l.shape = ResultSchema(o)
    /\ o = "initialize" => \A c \in ServerCapability : decode_field(c, l.caps[c]) # "error"

\* The ClientError variant each operation wraps its failures in.
FamilyError(o) ==
    CASE o = "list_prompts"   -> "PromptError"
      [] o = "list_resources" -> "ResourceError"
      [] o = "read_resources" -> "ResourceError"
      [] o = "list_tools"     -> "ToolError"
      [] o = "call_tool"      -> "ToolError"
      [] o = "initialize"     -> "InitializationFailed"

\* Message of the error an operation returns for an error envelope.
FailedMessage(o) ==
    CASE o = "list_prompts"   -> "Failed to list prompts"
      [] o = "list_resources" -> "Failed to list resources"
      [] o = "read_resources" -> "Failed to read resources"
      [] o = "list_tools"     -> "Failed to list tools"
      [] o = "call_tool"      -> "Failed to call tool"
      [] o = "initialize"     -> "Initialization failed"

\* Message of the error an operation returns when the result does not decode.
ParseMessage(o) ==
    CASE o = "list_prompts"   -> "Failed to parse prompts list"
      [] o = "list_resources" -> "Failed to parse resources list"
      [] o = "read_resources" -> "Failed to parse read resources response"
      [] o = "list_tools"     -> "Failed to parse tools list"
      [] o = "call_tool"      -> "Failed to parse tool response"
      [] o = "initialize"     -> "decode error"

\* send_request reporting an undecodable line the way src/src/client.rs did.
send_request_result_as_init(l) ==
    IF l.text = "badutf8" THEN Err("Io", "")
    ELSE IF from_str(l) = "Invalid" THEN Err("InitializationFailed", "Invalid response")
    ELSE Ok

\* What send_request returns for the line read_line produced.
send_request_result(l) ==
    IF l.text = "badutf8" THEN Err("Io", "")
    ELSE IF from_str(l) = "Invalid" THEN Err("ProtocolError", "Failed to parse response")
    ELSE Ok

\* An operation that returns Ok for every envelope send_request decoded.
OpResult_unchecked(o, l) ==
    IF send_request_result(l) # Ok THEN send_request_result(l) ELSE Ok

\* What the operation returns once send_request has returned.
OpResult(o, l) ==
    IF send_request_result(l) # Ok THEN send_request_result(l)
    ELSE IF from_str(l) = "Success"
         THEN IF from_value(o, l) THEN OkValue(l.payload) ELSE Err(FamilyError(o), ParseMessage(o))
         ELSE Err(FamilyError(o), FailedMessage(o))

\* ---------------------------------------------------------------- peer
\* Lines a peer may answer the request r with; every line answers r.
PeerLines(r) ==
    LET base == [id |-> r.id, text |-> "json", hasResult |-> FALSE, hasError |-> FALSE,
                 shape |-> "none", caps |-> NoFields, msg |-> "", payload |-> ""]
        o == CHOOSE x \in GatedOps \cup {"initialize"} : as_str(RequestTypeOf(x)) = r.method
        capsOf == IF r.method = "initialize" THEN CapChoices ELSE {NoFields}
        good == [base EXCEPT !.hasResult = TRUE, !.shape = ResultSchema(o)]
    IN  {[good EXCEPT !.caps = c] : c \in capsOf}
        \cup (IF r.method = "tools/call"
              THEN {[good EXCEPT !.shape = s, !.payload = t] :
                       s \in {"toolResult", "content"}, t \in Texts}
              ELSE {})
        \cup {[base EXCEPT !.hasResult = TRUE, !.shape = "junk"]}
        \cup {[base EXCEPT !.hasError = TRUE, !.msg = m] : m \in RemoteMessages}
        \cup {[good EXCEPT !.hasError = TRUE, !.msg = m] : m \in RemoteMessages}
        \cup {base}
        \cup {[base EXCEPT !.text = "garbage"]}
        \cup {[base EXCEPT !.text = "badutf8"]}

\* No task has called anything yet and the pipes are empty.
EngineRest ==
    /\ inner = {}
    /\ toPeer = <<>>
    /\ fromPeer = <<>>
    /\ pc = [p \in Procs |-> "idle"]
    /\ op = [p \in Procs |-> "none"]
    /\ reqId = [p \in Procs |-> -1]
    /\ line = [p \in Procs |-> NoLine]
    /\ result = [p \in Procs |-> NoResult]
    /\ capAtCheck = [p \in Procs |-> TRUE]
    /\ written = [p \in Procs |-> 0]
    /\ consumed = [p \in Procs |-> 0]
    /\ newLine = NoLine
    /\ newResult = NoResult
    /\ args = [p \in Procs |-> NoArgs]
    /\ sent = [p \in Procs |-> NoRequest]

NoQuery == [cap |-> "none", ret |-> FALSE]

NoGot == [called |-> FALSE, ids |-> NoStrings, count |-> 0, engines |-> <<>>]

\* ProtocolManager::new
ManagerInit ==
    /\ tool_counter = 1
    /\ clients = <<>>
    /\ formatted_tools = <<>>
    /\ client_tools = [k \in {} |-> <<>>]
    /\ registered = <<>>
    /\ lastAdd = "none"
    /\ got = NoGot

Init ==
    /\ phase = "unconstructed"
    /\ childAlive = FALSE
    /\ capabilities = None
    /\ next_id = 0
    /\ allocated = <<>>
    /\ wire = <<>>
    /\ EngineRest
    /\ asked = NoQuery
    /\ ManagerInit

\* ------------------------------------------------------------- actions
\* A call of initialize on a constructed engine borrows it mutably: it runs
\* only while no other operation borrows the engine.
ExclusiveBorrow == \E q \in Procs : pc[q] # "idle" /\ op[q] = "initialize"

\* Ids still to be taken by operations that passed their check.
PendingIds == Cardinality({q \in Procs : pc[q] = "next_id"})

\* Protocol::new up to the construction of Self: spawn the child, take its pipes.
New ==
    /\ phase = "unconstructed"
    /\ \/ /\ phase' = "failed"
          /\ newResult' = Err("Io", "")
          /\ UNCHANGED <<childAlive, pc, op, args>>
       \/ /\ phase' = "initializing"
          /\ childAlive' = TRUE
          /\ pc' = [pc EXCEPT !["main"] = "next_id"]
          /\ op' = [op EXCEPT !["main"] = "initialize"]
          /\ \E a \in ArgsOf("initialize") : args' = [args EXCEPT !["main"] = a]
          /\ UNCHANGED newResult
    /\ UNCHANGED <<capabilities, next_id, inner, toPeer, fromPeer, reqId, line, result,
                   capAtCheck, allocated, written, consumed, newLine, sent, wire>>
    /\ UNCHANGED outside

\* Entry of list_prompts, list_resources, read_resources, list_tools, call_tool:
\* check_capability(..)? before anything else.
Call(p, o) ==
    /\ phase = "ready"
    /\ pc[p] = "idle"
    /\ ~ExclusiveBorrow
    /\ next_id + PendingIds < MaxId
    /\ op' = [op EXCEPT ![p] = o]
    /\ \E a \in ArgsOf(o) : args' = [args EXCEPT ![p] = a]
    /\ sent' = [sent EXCEPT ![p] = NoRequest]
    /\ capAtCheck' = [capAtCheck EXCEPT ![p] = capable(capabilities, RequiredCapability(o))]
    /\ written' = [written EXCEPT ![p] = 0]
    /\ consumed' = [consumed EXCEPT ![p] = 0]
    /\ line' = [line EXCEPT ![p] = NoLine]
    /\ reqId' = [reqId EXCEPT ![p] = -1]
    /\ pc' = [pc EXCEPT ![p] = after_check(check_capability(capabilities, RequiredCapability(o)))]
    /\ IF check_capability(capabilities, RequiredCapability(o)) = Ok
       THEN result' = [result EXCEPT ![p] = NoResult]
       ELSE result' = [result EXCEPT ![p] = check_capability(capabilities, RequiredCapability(o))]
    /\ UNCHANGED <<phase, childAlive, capabilities, next_id, inner, toPeer, fromPeer, allocated,
                   newLine, newResult, wire>>
    /\ UNCHANGED outside

\* Entry of the public initialize(&mut self) on a constructed engine.
Initialize(p) ==
    /\ phase = "ready"
    /\ \A q \in Procs : pc[q] = "idle"
    /\ next_id < MaxId
    /\ op' = [op EXCEPT ![p] = "initialize"]
    /\ \E a \in ArgsOf("initialize") : args' = [args EXCEPT ![p] = a]
    /\ sent' = [sent EXCEPT ![p] = NoRequest]
    /\ pc' = [pc EXCEPT ![p] = "next_id"]
    /\ result' = [result EXCEPT ![p] = NoResult]
    /\ written' = [written EXCEPT ![p] = 0]
    /\ consumed' = [consumed EXCEPT ![p] = 0]
    /\ line' = [line EXCEPT ![p] = NoLine]
    /\ reqId' = [reqId EXCEPT ![p] = -1]
    /\ UNCHANGED <<phase, childAlive, capabilities, next_id, inner, toPeer, fromPeer,
                   capAtCheck, allocated, newLine, newResult, wire>>
    /\ UNCHANGED outside

\* JsonRpcRequest::new(self.next_id(), ..): the id is taken before the lock.
NextId(p) ==
    /\ pc[p] = "next_id"
    /\ reqId' = [reqId EXCEPT ![p] = next_id]
    /\ allocated' = Append(allocated, next_id)
    /\ next_id' = fetch_add(next_id)
    /\ pc' = [pc EXCEPT ![p] = "lock"]
    /\ UNCHANGED <<phase, childAlive, capabilities, inner, toPeer, fromPeer, op, line,
                   result, capAtCheck, written, consumed,
                   newLine, newResult, args, sent, wire>>
    /\ UNCHANGED outside

\* The public next_id() called by a holder of the engine on its own.
PublicNextId(p) ==
    /\ phase = "ready"
    /\ pc[p] = "idle"
    /\ ~ExclusiveBorrow
    /\ next_id + PendingIds < MaxId
    /\ allocated' = Append(allocated, next_id)
    /\ next_id' = fetch_add(next_id)
    /\ UNCHANGED <<phase, childAlive, capabilities, inner, toPeer, fromPeer, pc, op, reqId,
                   line, result, capAtCheck, written, consumed,
                   newLine, newResult, args, sent, wire>>
    /\ UNCHANGED outside

\* send_request: self.inner.lock().await
Lock(p) ==
    /\ pc[p] = "lock"
    /\ lock_free(inner)
    /\ inner' = inner \cup {p}
    /\ pc' = [pc EXCEPT ![p] = "write"]
    /\ UNCHANGED <<phase, childAlive, capabilities, next_id, toPeer, fromPeer, op, reqId,
                   line, result, capAtCheck, allocated, written, consumed,
                   newLine, newResult, args, sent, wire>>
    /\ UNCHANGED outside

\* send_request: write_all(message), write_all("\n"), flush; each `?` returns
\* the I/O error and drops the guard.
Write(p) ==
    /\ pc[p] = "write"
    /\ IF childAlive
       THEN /\ toPeer' = Append(toPeer, JsonRpcRequest(reqId[p], op[p], args[p]))
            /\ sent' = [sent EXCEPT ![p] = JsonRpcRequest(reqId[p], op[p], args[p])]
            /\ wire' = Append(wire, reqId[p])
            /\ written' = [written EXCEPT ![p] = @ + 1]
            /\ pc' = [pc EXCEPT ![p] = "read"]
            /\ UNCHANGED <<phase, inner, result, newResult>>
       ELSE /\ result' = [result EXCEPT ![p] = Err("Io", "")]
            /\ inner' = drop_guard(inner, p)
            /\ pc' = [pc EXCEPT ![p] = "idle"]
            /\ phase' = IF phase = "initializing" THEN "failed" ELSE phase
            /\ newResult' = IF phase = "initializing" THEN Err("Io", "") ELSE newResult
            /\ UNCHANGED <<toPeer, written, sent, wire>>
    /\ UNCHANGED <<childAlive, capabilities, next_id, fromPeer, op, reqId, line,
                   capAtCheck, allocated, consumed, newLine, args>>
    /\ UNCHANGED outside

\* send_request from read_line to its return, and the rest of the operation
\* that called it (no await point in between): decode the envelope, drop the
\* guard, map the outcome to the operation's result; initialize stores the
\* capabilities and Protocol::new returns the engine or drops it.
Read(p) ==
    /\ pc[p] = "read"
    /\ fromPeer # <<>> \/ ~childAlive
    /\ LET l == IF fromPeer # <<>> THEN Head(fromPeer) ELSE EofLine
           res == OpResult(op[p], l)
       IN  /\ fromPeer' = IF fromPeer # <<>> THEN Tail(fromPeer) ELSE fromPeer
           /\ consumed' = [consumed EXCEPT ![p] = IF fromPeer # <<>> THEN @ + 1 ELSE @]
           /\ line' = [line EXCEPT ![p] = l]
           /\ result' = [result EXCEPT ![p] = res]
           /\ capabilities' = IF op[p] = "initialize" /\ res = Ok
                              THEN Some(decode_capabilities(l.caps))
                              ELSE capabilities
           /\ phase' = IF phase = "initializing"
                       THEN (IF res = Ok THEN "ready" ELSE "failed")
                       ELSE phase
           /\ newLine' = IF phase = "initializing" THEN l ELSE newLine
           /\ newResult' = IF phase = "initializing" THEN res ELSE newResult
           /\ childAlive' = IF phase = "initializing" /\ res # Ok
                             THEN drop_child(childAlive)
                             ELSE childAlive
           /\ pc' = [pc EXCEPT ![p] = after_read(res)]
    /\ inner' = drop_guard(inner, p)
    /\ UNCHANGED <<next_id, toPeer, op, reqId, capAtCheck, allocated, written, args, sent, wire>>
    /\ UNCHANGED outside

\* The holder drops the engine: the pipes close and the Child is dropped.
Drop ==
    /\ phase = "ready"
    /\ \A q \in Procs : pc[q] = "idle"
    /\ phase' = "dropped"
    /\ childAlive' = drop_child(childAlive)
    /\ UNCHANGED <<capabilities, next_id, inner, toPeer, fromPeer, pc, op, reqId, line,
                   result, capAtCheck, allocated, written, consumed, newLine, newResult,
                   args, sent, wire>>
    /\ UNCHANGED outside

\* The child answers the oldest request line it has not answered yet.
PeerRespond ==
    /\ childAlive
    /\ toPeer # <<>>
    /\ \E l \in PeerLines(Head(toPeer)) : fromPeer' = Append(fromPeer, l)
    /\ toPeer' = Tail(toPeer)
    /\ UNCHANGED <<phase, childAlive, capabilities, next_id, inner, pc, op, reqId, line,
                   result, capAtCheck, allocated, written, consumed,
                   newLine, newResult, args, sent, wire>>
    /\ UNCHANGED outside

\* The child exits and its pipe ends close.
PeerExit ==
    /\ childAlive
    /\ childAlive' = FALSE
    /\ UNCHANGED <<phase, capabilities, next_id, inner, toPeer, fromPeer, pc, op, reqId,
                   line, result, capAtCheck, allocated, written, consumed,
                   newLine, newResult, args, sent, wire>>
    /\ UNCHANGED outside

Next ==
    \/ New
    \/ \E p \in Procs, o \in GatedOps : Call(p, o)
    \/ \E p \in Procs : Initialize(p)
    \/ \E p \in Procs : NextId(p)
    \/ \E p \in Procs : PublicNextId(p)
    \/ \E p \in Procs : Lock(p)
    \/ \E p \in Procs : Write(p)
    \/ \E p \in Procs : Read(p)
    \/ Drop
    \/ PeerRespond
    \/ PeerExit

Spec == Init /\ [][Next]_vars

\* The engine used through its operations only, for as long as it is held.
NextLive ==
    \/ New
    \/ \E p \in Procs, o \in GatedOps : Call(p, o)
    \/ \E p \in Procs : NextId(p)
    \/ \E p \in Procs : Lock(p)
    \/ \E p \in Procs : Write(p)
    \/ \E p \in Procs : Read(p)
    \/ PeerRespond
    \/ PeerExit

\* The tokio scheduler polls every task that can run; tokio's Mutex hands the
\* lock to waiters in the order they asked; a running peer answers.
Fairness ==
    /\ \A p \in Procs : WF_vars(NextId(p)) /\ WF_vars(Write(p)) /\ WF_vars(Read(p))
    /\ \A p \in Procs : SF_vars(Lock(p))
    /\ WF_vars(PeerRespond)

SpecLive == Init /\ [][NextLive]_vars /\ Fairness

\* ------------------------------------------------- capable on its own
\* Every value Protocol.capabilities can hold.
AllCapabilities == {None} \cup {Some(f) : f \in [ServerCapability -> FieldValues]}

\* An engine whose handshake has stored any capabilities, or that is still
\* inside Protocol::new with none stored.
InitCapable ==
    /\ capabilities \in AllCapabilities
    /\ phase = IF capabilities.some THEN "ready" ELSE "initializing"
    /\ childAlive = TRUE
    /\ next_id = IF capabilities.some THEN 1 ELSE 0
    /\ allocated = IF capabilities.some THEN <<0>> ELSE <<>>
    /\ wire = IF capabilities.some THEN <<0>> ELSE <<>>
    /\ EngineRest
    /\ asked = NoQuery
    /\ ManagerInit

\* A call of capable(c).
Capable(c) ==
    /\ asked' = [cap |-> c, ret |-> capable(capabilities, c)]
    /\ UNCHANGED <<engineVars, managerVars>>

NextCapable == \E c \in ServerCapability : Capable(c)

SpecCapable == InitCapable /\ [][NextCapable]_vars

\* ------------------------------------------------------ ProtocolManager
\* format_tools_for_prompt with the offset dropped, as get_tools_for_clients
\* calls it.
format_tools_for_prompt_from_one(tools, starting_index) ==
    [i \in 1..Len(tools) |->
        [index |-> (i - 1) + 1, name |-> tools[i].name, description |-> tools[i].description]]

\* format_tools_for_prompt: one "{index}. {name}: {description}\n" per tool,
\* index = position from 0 + starting_index.
format_tools_for_prompt(tools, starting_index) ==
    [i \in 1..Len(tools) |->
        [index |-> (i - 1) + starting_index, name |-> tools[i].name,
         description |-> tools[i].description]]

\* filter_tools_by_name
filter_tools_by_name(tools, tool_names) ==
    LET keep(t) == t.name \in tool_names IN SelectSeq(tools, keep)

\* HashMap::insert
insert(m, k, v) == [x \in DOMAIN m \cup {k} |-> IF x = k THEN v ELSE m[x]]

\* ProtocolManager::get_protocols
get_protocols(client_ids) ==
    IF client_ids.some
    THEN LET keep(e) == \E id \in client_ids.strings : id \in DOMAIN client_tools
         IN  SelectSeq(clients, keep)
    ELSE clients

\* add_protocol keeping the engine before it asks it for its tools.
add_protocol_eager(client_id, tool_names) ==
    /\ Len(clients) < MaxProtocols
    /\ \/ /\ lastAdd' = "Err(Protocol::new)"
          /\ UNCHANGED <<tool_counter, clients, formatted_tools, client_tools, registered>>
       \/ /\ lastAdd' = "Err(list_tools)"
          /\ clients' = Append(clients, Len(clients) + 1)
          /\ registered' = Append(registered, client_id)
          /\ UNCHANGED <<tool_counter, formatted_tools, client_tools>>
       \/ \E tools \in Catalogs :
             LET filtered_tools == IF tool_names.some
                                   THEN filter_tools_by_name(tools, tool_names.strings)
                                   ELSE tools
             IN  /\ formatted_tools' = Append(formatted_tools,
                                              format_tools_for_prompt(filtered_tools, tool_counter))
                 /\ tool_counter' = tool_counter + Len(filtered_tools)
                 /\ client_tools' = insert(client_tools, client_id, filtered_tools)
                 /\ clients' = Append(clients, Len(clients) + 1)
                 /\ registered' = Append(registered, client_id)
                 /\ lastAdd' = "Ok"
    /\ UNCHANGED <<engineVars, asked, got>>

\* ProtocolManager::add_protocol. Protocol::new and list_tools return what the
\* server makes them return; either `?` leaves the manager as it was.
add_protocol(client_id, tool_names) ==
    /\ Len(clients) < MaxProtocols
    /\ \/ /\ lastAdd' = "Err(Protocol::new)"
          /\ UNCHANGED <<tool_counter, clients, formatted_tools, client_tools, registered>>
       \/ /\ lastAdd' = "Err(list_tools)"
          /\ UNCHANGED <<tool_counter, clients, formatted_tools, client_tools, registered>>
       \/ \E tools \in Catalogs :
             LET filtered_tools == IF tool_names.some
                                   THEN filter_tools_by_name(tools, tool_names.strings)
                                   ELSE tools
             IN  /\ formatted_tools' = Append(formatted_tools,
                                              format_tools_for_prompt(filtered_tools, tool_counter))
                 /\ tool_counter' = tool_counter + Len(filtered_tools)
                 /\ client_tools' = insert(client_tools, client_id, filtered_tools)
                 /\ clients' = Append(clients, Len(clients) + 1)
                 /\ registered' = Append(registered, client_id)
                 /\ lastAdd' = "Ok"
    /\ UNCHANGED <<engineVars, asked, got>>

\* A call of get_protocols(client_ids).
GetProtocols(client_ids) ==
    /\ got' = [called |-> TRUE, ids |-> client_ids, count |-> Len(clients),
               engines |-> get_protocols(client_ids)]
    /\ UNCHANGED <<engineVars, asked, tool_counter, clients, formatted_tools, client_tools,
                   registered, lastAdd>>

NextManager ==
    \/ \E k \in Keys, n \in ToolNameChoices : add_protocol(k, n)
    \/ \E q \in ClientIdChoices : GetProtocols(q)

SpecManager == Init /\ [][NextManager]_vars

TypeOK ==
    /\ phase \in {"unconstructed", "initializing", "ready", "failed", "dropped"}
    /\ childAlive \in BOOLEAN
    /\ capabilities \in [some : BOOLEAN, fields : [ServerCapability -> FieldValues]]
    /\ next_id \in 0..MaxId
    /\ inner \subseteq Procs
    /\ pc \in [Procs -> {"idle", "next_id", "lock", "write", "read"}]

\* ------------------------------------------------------------- properties
\* A task is between the write of its request line and the end of its read.
InRoundTrip(p) == pc[p] = "read"

\* A task's last operation was a gated one and has returned.
Returned(p) == op[p] \in GatedOps /\ pc[p] = "idle"

\* C1: a gated operation whose required capability is absent from the stored
\* Capabilities fails with CapabilityError and writes and reads nothing on the
\* transport, whatever the other callers are doing.
C1_CapabilityGate ==
    \A p \in Procs :
        (op[p] \in GatedOps /\ ~capAtCheck[p]) =>
            /\ pc[p] = "idle"
            /\ result[p].kind = "CapabilityError"
            /\ written[p] = 0
            /\ consumed[p] = 0
            /\ p \notin inner

C1_Witness ==
    \E p, q \in Procs :
        /\ p # q
        /\ op[p] \in GatedOps /\ ~capAtCheck[p]
        /\ result[p].kind = "CapabilityError"
        /\ InRoundTrip(q)

\* C2: round trips on one engine are mutually exclusive: while one task is
\* between the write of its request line and the end of its read of the
\* response line, no other task has written or read.
C2_RoundTripsExclusive ==
    \A p, q \in Procs : (p # q /\ InRoundTrip(p)) => (~InRoundTrip(q) /\ q \notin inner)

C2_Witness ==
    \E p, q \in Procs : p # q /\ InRoundTrip(p) /\ pc[q] = "lock" /\ op[q] \in GatedOps

\* C3: the ids next_id hands out start at 0 and are strictly increasing in
\* allocation order (hence pairwise distinct), failed operations included.
C3_IdsStrictlyIncreasing ==
    /\ Len(allocated) > 0 => allocated[1] = 0
    /\ \A i, j \in 1..Len(allocated) : i < j => allocated[i] < allocated[j]

C3_Witness ==
    /\ Len(allocated) >= 3
    /\ \E p \in Procs : Returned(p) /\ result[p].kind \in {"ToolError", "ProtocolError", "Io"}

\* C4: with a peer that answers every request line once and in order, the
\* response line a task reads is the one the peer produced for the request
\* that task wrote.
C4_ResponseIsOwn ==
    \A p \in Procs :
        (pc[p] = "idle" /\ line[p].text \notin {"none", "empty"}) => line[p].id = reqId[p]

C4_Witness ==
    \E p, q \in Procs :
        /\ p # q
        /\ Returned(q) /\ line[q].text = "json" /\ line[q].id = reqId[q]
        /\ pc[p] = "lock" /\ reqId[p] >= 1 /\ reqId[p] < reqId[q]

\* Protocol::new returned Ok(client): the caller holds the engine, or held it
\* until it dropped it.
EngineReturned == phase \in {"ready", "dropped"}

\* The line carries a result that decodes into the schema its reader expects.
HandshakeAccepted(l) == l.text = "json" /\ l.hasResult /\ from_value("initialize", l)

\* C5: Protocol::new returns an engine exactly when the initialize exchange
\* read an envelope with a result that decodes into the handshake schema; in
\* every other case it fails and no engine exists, so an engine a caller
\* holds has stored Capabilities.
C5_ConstructionAllOrNothing ==
    /\ EngineReturned <=> (newResult = Ok)
    /\ phase \in {"ready", "dropped", "failed"} =>
           ((newResult = Ok) <=> HandshakeAccepted(newLine))
    /\ EngineReturned => capabilities.some
    /\ ~EngineReturned => ~capabilities.some

C5_Witness ==
    /\ phase = "failed"
    /\ newLine.text = "json" /\ newLine.hasResult /\ ~newLine.hasError /\ newLine.shape = "junk"
    /\ newResult.kind = "InitializationFailed"

\* C6: once stored, the Capabilities never change, whatever public operation
\* is called on the engine afterwards, a further initialize included.
C6_CapabilitiesWrittenOnce == [][capabilities.some => capabilities' = capabilities]_vars

\* C7: a gated operation that reads a structurally valid error envelope fails
\* with the error kind of its family, and the error carries the remote message.
C7_ErrorEnvelopeCarriesMessage ==
    \A p \in Procs :
        (Returned(p) /\ line[p].text = "json" /\ line[p].hasError /\ ~line[p].hasResult) =>
            /\ result[p].kind = FamilyError(op[p])
            /\ result[p].msg = line[p].msg

\* C8: an envelope with both result and error, or with neither, is a decode
\* error: the operation that read it returns neither success nor a family error.
C8_AmbiguousEnvelopeRejected ==
    \A p \in Procs :
        (pc[p] = "idle" /\ line[p].text = "json" /\ (line[p].hasResult <=> line[p].hasError)) =>
            result[p].kind = "ProtocolError"

\* C9: when the handshake fails because of the response line, construction
\* fails with InitializationFailed; ProtocolError is returned only by
\* operations after the handshake.
C9_HandshakeFailureKind ==
    /\ (phase = "failed" /\ newLine.text \in {"json", "garbage"}) =>
           newResult.kind = "InitializationFailed"
    /\ \A p \in Procs : result[p].kind = "ProtocolError" => op[p] \in GatedOps

\* C10: on a constructed engine, a gated operation that reads a line that is
\* not JSON fails with ProtocolError.
C10_MalformedLine ==
    \A p \in Procs : (Returned(p) /\ line[p].text = "garbage") => result[p].kind = "ProtocolError"

C10_Witness ==
    \E p \in Procs :
        /\ Returned(p) /\ line[p].text = "garbage" /\ result[p].kind = "ProtocolError"
        /\ phase = "ready" /\ p \notin inner

\* What a task's own steps change.
TaskState(p) == <<pc[p], op[p], args[p], reqId[p], line[p], result[p], capAtCheck[p],
                  written[p], consumed[p], sent[p]>>

\* C11: the step in which a gated operation fails with CapabilityError changes
\* nothing but the caller's own result: the id counter, the stored
\* Capabilities, the lock and both pipes are as before, so the next operation
\* gets the id it would have got anyway.
C11_CapabilityErrorNoEffect ==
    [][\A p \in Procs :
          (result'[p].kind = "CapabilityError" /\ TaskState(p)' # TaskState(p)) =>
              /\ next_id' = next_id
              /\ allocated' = allocated
              /\ capabilities' = capabilities
              /\ inner' = inner
              /\ toPeer' = toPeer
              /\ fromPeer' = fromPeer
              /\ wire' = wire
              /\ pc'[p] = "idle"]_vars

C11_Witness ==
    \E p \in Procs :
        /\ op[p] \in GatedOps /\ result[p].kind = "CapabilityError"
        /\ next_id = 1 /\ wire = <<0>> /\ inner = {} /\ toPeer = <<>> /\ fromPeer = <<>>

\* C13: with Tools present, call_tool(name, arguments) writes exactly one
\* request line: method "tools/call", params {name, arguments} as given, id
\* the counter value it took; as the first use of the counter after
\* construction that id is 1.
C13_CallToolRequest ==
    \A p \in Procs :
        (op[p] = "call_tool" /\ capAtCheck[p]
           /\ (pc[p] = "read" \/ (pc[p] = "idle" /\ line[p] # NoLine))) =>
            /\ written[p] = 1
            /\ sent[p] = [jsonrpc |-> "2.0", id |-> reqId[p], method |-> "tools/call",
                          params |-> [name |-> args[p].name, arguments |-> args[p].arguments]]
            /\ \E i \in 1..Len(allocated) : allocated[i] = reqId[p] /\ reqId[p] = i - 1
            /\ Cardinality({i \in 1..Len(wire) : wire[i] = reqId[p]}) = 1
            /\ (Len(allocated) >= 2 /\ allocated[2] = reqId[p]) => reqId[p] = 1

C13_Witness ==
    \E p \in Procs :
        /\ op[p] = "call_tool" /\ pc[p] = "read"
        /\ args[p].name = "search_repositories" /\ args[p].arguments = "{query:rust}"
        /\ sent[p].id = 1 /\ wire = <<0, 1>>

\* C14: with Tools present, call_tool that reads a success envelope whose
\* result is {"content":[{"type":"text","text":t}]} returns Ok with the text t.
C14_CallToolReturnsText ==
    \A p \in Procs :
        (Returned(p) /\ op[p] = "call_tool" /\ line[p].text = "json"
           /\ line[p].hasResult /\ ~line[p].hasError /\ line[p].shape = "content") =>
            /\ result[p].kind = "Ok"
            /\ result[p].value = line[p].payload

\* C15: an operation whose read meets end of file on the child's stdout fails
\* with the Io kind.
C15_EofIsIo ==
    \A p \in Procs : (pc[p] = "idle" /\ line[p].text = "empty") => result[p].kind = "Io"

\* C16: once the engine is gone (dropped by its holder, or dropped by
\* Protocol::new after the spawn), its child process does not run any more.
C16_ChildGoneWithEngine ==
    (phase \in {"failed", "dropped"}) => ~childAlive

\* C17: an invocation that passed its capability check writes at most one
\* request line and reads at most one response line, and exactly one of each
\* when no I/O error or end of file occurred, whatever the decoding gave.
C17_NoRetry ==
    \A p \in Procs :
        /\ written[p] <= 1
        /\ consumed[p] <= 1
        /\ (Returned(p) /\ capAtCheck[p] /\ result[p].kind # "Io" /\ line[p].text # "empty") =>
               (written[p] = 1 /\ consumed[p] = 1)

C17_Witness ==
    \E p \in Procs :
        /\ Returned(p) /\ line[p].shape = "junk" /\ result[p].kind = FamilyError(op[p])
        /\ written[p] = 1 /\ consumed[p] = 1

\* C20 as claimed: the ids of the request lines are strictly increasing in the
\* order the lines are written.
C20_WireIdsIncreasing ==
    \A i, j \in 1..Len(wire) : i < j => wire[i] < wire[j]

\* C20 as amended: the ids of the request lines written to one engine are
\* pairwise distinct and each was handed out by next_id; the order of the
\* writes is the order in which the lock was taken, not the order of the ids.
C20_WireIdsDistinct ==
    /\ \A i, j \in 1..Len(wire) : i # j => wire[i] # wire[j]
    /\ \A i \in 1..Len(wire) : \E k \in 1..Len(allocated) : allocated[k] = wire[i]

C20_Witness ==
    Len(wire) = 3 /\ wire[2] > wire[3]

\* C12: capable(c) is true exactly when Capabilities are stored and the field
\* for c is present, whatever is inside the field; with nothing stored it is
\* false for every capability.
C12_CapableIsPresence ==
    asked.cap \in ServerCapability =>
        /\ asked.ret <=> (capabilities.some /\ capabilities.fields[asked.cap] # "None")
        /\ ~capabilities.some => ~asked.ret
        /\ (capabilities.some /\ capabilities.fields[asked.cap] = "false") => asked.ret

C12_Witness ==
    /\ capabilities = Some([NoFields EXCEPT !["Tools"] = "false"])
    /\ asked = [cap |-> "Tools", ret |-> TRUE]

\* The entries of all listings of formatted_tools, in order.
RECURSIVE Concat(_)
Concat(ss) == IF ss = <<>> THEN <<>> ELSE Head(ss) \o Concat(Tail(ss))

\* C18: the display indices in the listings of formatted_tools are pairwise
\* distinct and are exactly 1 .. tool_counter - 1, in order.
C18_DisplayIndicesContiguous ==
    LET all == Concat(formatted_tools)
    IN  /\ Len(all) = tool_counter - 1
        /\ \A k \in 1..Len(all) : all[k].index = k
        /\ \A i, j \in 1..Len(all) : i # j => all[i].index # all[j].index

C18_Witness ==
    /\ Len(formatted_tools) >= 2
    /\ Len(formatted_tools[1]) >= 1 /\ Len(formatted_tools[2]) >= 2
    /\ tool_counter >= 4

\* C19: get_protocols(Some(ids)) returns exactly the engines registered under
\* the keys in ids; get_protocols(None) returns every registered engine.
C19_GetProtocolsByKey ==
    got.called =>
        LET returned == {got.engines[i] : i \in 1..Len(got.engines)}
        IN  IF got.ids.some
            THEN returned = {clients[i] : i \in {j \in 1..got.count : registered[j] \in got.ids.strings}}
            ELSE returned = {clients[i] : i \in 1..got.count}

\* C21: the first line ever written to the transport is the initialize
\* request with id 0, method "initialize", the version Protocol::new was
\* called with and capabilities {}; a line of a gated operation is written
\* only after the handshake response has been read and accepted.
C21_FirstLineIsInitialize ==
    [][/\ (wire = <<>> /\ wire' # <<>>) =>
            \E v \in Versions :
                /\ args["main"] = [version |-> v]
                /\ toPeer' = <<[jsonrpc |-> "2.0", id |-> 0, method |-> "initialize",
                                params |-> [protocolVersion |-> v, capabilities |-> "{}",
                                            clientInfo |-> [name |-> "test",
                                                            version |-> "0.1.0"]]]>>
       /\ (Len(toPeer') > Len(toPeer) /\ toPeer'[Len(toPeer')].method # "initialize") =>
            /\ wire # <<>>
            /\ phase = "ready"
            /\ newResult = Ok
            /\ HandshakeAccepted(newLine)]_vars

C21_Witness ==
    /\ Len(wire) >= 2
    /\ wire[1] = 0
    /\ args["main"] = [version |-> "2024-11-05"]
    /\ \E p \in Procs : sent[p].method = "tools/list" /\ pc[p] = "read"

\* C22: a handshake success result whose capabilities use the wire shapes of
\* the data model makes construction succeed, and capable(c) is then true for
\* exactly the capabilities whose field is present.
C22_WireShapesAccepted ==
    (/\ newLine.text = "json" /\ newLine.hasResult /\ ~newLine.hasError
     /\ newLine.shape = "handshake"
     /\ \A c \in ServerCapability : newLine.caps[c] \in {"None", "wire"})
    => /\ newResult = Ok
       /\ next_id = 1 =>
            \A c \in ServerCapability : capable(capabilities, c) <=> newLine.caps[c] # "None"

\* C23: a gated operation that receives a success envelope whose result does
\* not decode into its schema fails with the error kind of its family and
\* returns no success value.
C23_UndecodableResultIsFamilyError ==
    \A p \in Procs :
        (/\ Returned(p)
         /\ line[p].text = "json" /\ line[p].hasResult /\ line[p].shape = "junk")
        => /\ result[p].value = ""
           /\ op[p] \in {"list_tools", "call_tool"} => result[p].kind = "ToolError"
           /\ op[p] \in {"list_resources", "read_resources"} => result[p].kind = "ResourceError"
           /\ op[p] = "list_prompts" => result[p].kind = "PromptError"

C23_Witness ==
    \E p, q \in Procs :
        /\ Returned(p) /\ op[p] = "read_resources"
        /\ line[p].hasResult /\ line[p].shape = "junk"
        /\ result[p].kind = "ResourceError"
        /\ Returned(q) /\ op[q] = "list_prompts"
        /\ line[q].hasResult /\ line[q].shape = "junk"
        /\ result[q].kind = "PromptError"

\* C24: each gated operation checks one fixed capability and writes one
\* fixed method: list_tools -> Tools, "tools/list"; call_tool -> Tools,
\* "tools/call"; list_resources -> Resources, "resources/list";
\* read_resources -> Resources, "resources/read"; list_prompts -> Prompts,
\* "prompts/list"; as_str is total and injective over the fourteen methods.
C24_OperationBindings ==
    LET cap(o) == CASE o \in {"list_tools", "call_tool"} -> "Tools"
                    [] o \in {"list_resources", "read_resources"} -> "Resources"
                    [] o = "list_prompts" -> "Prompts"
        method(o) == CASE o = "list_tools" -> "tools/list"
                       [] o = "call_tool" -> "tools/call"
                       [] o = "list_resources" -> "resources/list"
                       [] o = "read_resources" -> "resources/read"
                       [] o = "list_prompts" -> "prompts/list"
    IN  /\ Cardinality(RequestType) = 14
        /\ Cardinality(MethodStrings) = 14
        /\ as_str_injective
        /\ \A p \in Procs :
              (op[p] \in GatedOps /\ pc[p] # "idle") =>
                  /\ capAtCheck[p]
                  /\ capabilities.some /\ capabilities.fields[cap(op[p])] # "None"
                  /\ written[p] = 1 => sent[p].method = method(op[p])

C24_Witness ==
    \E p, q \in Procs :
        /\ op[p] = "read_resources" /\ pc[p] = "read" /\ sent[p].method = "resources/read"
        /\ op[q] = "list_prompts" /\ pc[q] = "lock"

C26_FailedOperationConsumedOneLine ==
    /\ \A p \in Procs :
          (/\ pc[p] = "idle"
           /\ result[p].kind \in {"ProtocolError", "ToolError", "ResourceError", "PromptError"})
          => (written[p] = 1 /\ consumed[p] = 1)
    /\ (/\ inner = {}
        /\ childAlive
        /\ newResult.kind # "Io"
        /\ \A p \in Procs : result[p].kind # "Io")
       => (toPeer = <<>> /\ fromPeer = <<>>)

\* C27: an add_protocol call that fails, in the construction of the engine
\* or in the tool listing, leaves tool_counter, clients, formatted_tools and
\* client_tools as they were before the call.
C27_FailedAddLeavesRegistry ==
    [][lastAdd' \in {"Err(Protocol::new)", "Err(list_tools)"} =>
          UNCHANGED <<tool_counter, clients, formatted_tools, client_tools>>]_vars

C27_Witness ==
    /\ lastAdd = "Err(list_tools)"
    /\ Len(clients) = 2
    /\ tool_counter = 4

\* The number of tools held in a map from keys to tool lists.
RECURSIVE TotalTools(_, _)
TotalTools(m, ks) ==
    IF ks = {} THEN 0
    ELSE LET k == CHOOSE x \in ks : TRUE IN Len(m[k]) + TotalTools(m, ks \ {k})

\* C28: after any sequence of add_protocol calls, reused keys included,
\* tool_counter - 1 is the number of tools held in client_tools and clients
\* holds as many engines as client_tools holds keys, so every engine has a
\* tool list under its key.
C28_RegistryConsistent ==
    /\ tool_counter - 1 = TotalTools(client_tools, DOMAIN client_tools)
    /\ Len(clients) = Cardinality(DOMAIN client_tools)
    /\ \A i \in 1..Len(clients) : registered[i] \in DOMAIN client_tools

====
